---- MODULE Spec2Model ----
(***************************************************************************)
(* Emotion-score normalization and aggregation (useTextEmotionModel,       *)
(* useImageEmotionModel), the lazily loaded classifier handle of the two   *)
(* hooks, the TextAnalysis and VideoAnalysis pages, and the                *)
(* combined-analysis pages that run both modalities.                       *)
(*                                                                         *)
(* JavaScript numbers are modelled as exact rationals <<n, d>> in lowest   *)
(* terms (d > 0).  An IEEE double differs from the exact quotient by a     *)
(* relative error below 2^-52 per operation, far inside every tolerance    *)
(* the checked properties name.                                            *)
(***************************************************************************)
EXTENDS Integers, Sequences, FiniteSets, TLC

VARIABLES
    hook,          \* which hook's analysis runs: "text" or "image"
    results,       \* the classifier's raw output: a sequence of [label, score]
    data,          \* the EmotionData returned by analyzeText / analyzeImage, or Null
    refed,         \* the labelling used to feed data back as raw input, or "none"
    again,         \* the EmotionData of the re-run, or Null
    page,          \* the mounted page that uses the hook: "none", "single", "combined"
    mounts,        \* hook instances created so far; the mounted one is the last
    classifierRef, \* per instance: classifierRef.current, 0 for null, else a pipeline
    isLoading,     \* per instance: the isLoading state
    modelReady,    \* per instance: the modelReady state
    isAnalyzing,   \* per instance: the page's isAnalyzing state
    calls,         \* the loadModel / analyze calls made: [inst, op, pc, attempts, classified, error]
    pipelines,     \* pipeline() invocations so far
    built,         \* pipelines constructed so far
    variant,       \* the combined page: "local" (the two hooks) or "remote" (edge function)
    user,          \* a user is signed in
    text,          \* the page's text input, trimmed
    isCameraOn,    \* the page's camera state
    analyzing,     \* the combined page's isAnalyzing state
    textResults,   \* the combined page's textResults state
    videoResults,  \* the combined page's videoResults state
    tasks,         \* per modality, the promise pushed by handleCombinedAnalysis
    returned,      \* per modality, what its analysis resolved with (Null if nothing)
    saved,         \* per modality, how far saveAnalysis got
    toasts,        \* the toast() calls since the last click, in order
    store,         \* the rows inserted into emotion_analyses
    order,         \* the modalities of this run in the order they settled
    runs,          \* clicks on an Analyze button of the analysis pages so far
    pageResults,   \* the results state of the TextAnalysis / VideoAnalysis page
    pageAnalyzing, \* the isAnalyzing state of the TextAnalysis / VideoAnalysis page
    handler,       \* where handleAnalyze / captureAndAnalyze stands, or how it ended
    shuffled,      \* the raw classification again, its pairs in another order
    emotionsProp,  \* the emotions array passed to EmotionResults
    sortedEmotions, \* the rows EmotionResults displays
    req,           \* the request the analyze-emotion function serves
    stage,         \* where serve stands: "idle", "received", "fetching", "responded"
    reply,         \* what the AI gateway answered, or NoReply
    fetches,       \* calls of the AI gateway so far
    responses,     \* the responses serve has returned
    table,         \* the user's rows of emotion_analyses, as stored
    history,       \* the Dashboard's history state
    loadingHistory, \* the Dashboard's loadingHistory state
    counts,        \* the Dashboard's counts state
    requests       \* the Dashboard's fetchHistory / deleteAnalysis calls, in call order

normVars == <<results, data, refed, again>>

hookVars ==
    <<page, mounts, classifierRef, isLoading, modelReady, isAnalyzing, calls,
      pipelines, built>>

combinedVars ==
    <<variant, user, text, isCameraOn, analyzing, textResults, videoResults, tasks,
      returned, saved, toasts, store, order, runs>>

pageVars == <<pageResults, pageAnalyzing, handler>>

permVars == <<shuffled>>

viewVars == <<emotionsProp, sortedEmotions>>

edgeVars == <<req, stage, reply, fetches, responses>>

dashVars == <<table, history, loadingHistory, counts, requests>>

auxVars == <<permVars, viewVars, edgeVars, dashVars>>

vars ==
    <<hook, results, data, refed, again, page, mounts, classifierRef, isLoading,
      modelReady, isAnalyzing, calls, pipelines, built, variant, user, text,
      isCameraOn, analyzing, textResults, videoResults, tasks, returned, saved,
      toasts, store, order, runs, pageResults, pageAnalyzing, handler, shuffled,
      emotionsProp, sortedEmotions, req, stage, reply, fetches, responses, table,
      history, loadingHistory, counts, requests>>

\* null, where an EmotionData is expected
Null == [null |-> TRUE]

-----------------------------------------------------------------------------
(* Numbers *)

RECURSIVE GCD(_, _)
GCD(a, b) == IF b = 0 THEN a ELSE GCD(b, a % b)

Rat(n, d) == LET g == GCD(n, d) IN IF n = 0 THEN <<0, 1>> ELSE <<n \div g, d \div g>>

RatAdd(x, y) == Rat(x[1] * y[2] + y[1] * x[2], x[2] * y[2])

RatDiv(x, y) == Rat(x[1] * y[2], x[2] * y[1])

RatLT(x, y) == x[1] * y[2] < y[1] * x[2]

RatLE(x, y) == x[1] * y[2] <= y[1] * x[2]

Zero == <<0, 1>>

One == <<1, 1>>

-----------------------------------------------------------------------------
(* Lookup tables and thresholds *)

TextEMOTION_MAP ==
    [k \in {"joy", "sadness", "anger", "surprise", "disgust", "neutral"} |->
        CASE k = "joy" -> "Happy"
          [] k = "sadness" -> "Sad"
          [] k = "anger" -> "Angry"
          [] k = "surprise" -> "Surprised"
          [] k = "disgust" -> "Disgusted"
          [] k = "neutral" -> "Neutral"]

ImageEMOTION_MAP ==
    [k \in {"happy", "sad", "angry", "surprise", "disgust", "neutral"} |->
        CASE k = "happy" -> "Happy"
          [] k = "sad" -> "Sad"
          [] k = "angry" -> "Angry"
          [] k = "surprise" -> "Surprised"
          [] k = "disgust" -> "Disgusted"
          [] k = "neutral" -> "Neutral"]

EMOTION_MAP(h) == IF h = "text" THEN TextEMOTION_MAP ELSE ImageEMOTION_MAP

\* EMOTION_MAP is a plain object literal: a key it does not own is looked up on
\* Object.prototype.  Only two inherited properties have an all-lowercase name;
\* each is an object or function, which as a property key becomes this string.
ObjectPrototype ==
    [k \in {"constructor", "__proto__"} |->
        IF k = "constructor" THEN "function Object() { [native code] }"
                             ELSE "[object Object]"]

Undefined == "undefined"

\* EMOTION_MAP[key], as the key under which line 116 then stores the score
Lookup(h, key) ==
    IF key \in DOMAIN EMOTION_MAP(h) THEN EMOTION_MAP(h)[key]
    ELSE IF key \in DOMAIN ObjectPrototype THEN ObjectPrototype[key]
    ELSE Undefined

allEmotions == <<"Happy", "Sad", "Angry", "Surprised", "Disgusted", "Neutral">>

Categories == {allEmotions[i] : i \in 1..Len(allEmotions)}

toLowerCaseOmitted(s) == s

\* String.prototype.toLowerCase on the strings the model uses
toLowerCase(s) ==
    CASE s = "JOY" -> "joy"
      [] s = "Neutral" -> "neutral"
      [] s = "Happy" -> "happy"
      [] s = "Sad" -> "sad"
      [] s = "Angry" -> "angry"
      [] s = "Surprised" -> "surprised"
      [] s = "Disgusted" -> "disgusted"
      [] OTHER -> s

HighThreshold == <<67, 100>>

MediumThreshold == <<17, 50>>

MixedThreshold == <<3, 20>>

getIntensityStrict(score) ==
    IF RatLT(HighThreshold, score) THEN "high"
    ELSE IF RatLT(MediumThreshold, score) THEN "medium"
    ELSE "low"

getIntensity(score) ==
    IF RatLE(HighThreshold, score) THEN "high"
    ELSE IF RatLE(MediumThreshold, score) THEN "medium"
    ELSE "low"

-----------------------------------------------------------------------------
(* analyzeText / analyzeImage, after the classifier has returned *)

SetKeyAccumulate(scores, key, v) ==
    [k \in DOMAIN scores \cup {key} |->
        IF k = key THEN (IF key \in DOMAIN scores THEN RatAdd(scores[key], v) ELSE v)
        ELSE scores[k]]

\* emotionScores[key] = score, adding the key when the object lacks it
SetKey(scores, key, v) ==
    [k \in DOMAIN scores \cup {key} |-> IF k = key THEN v ELSE scores[k]]

\* allEmotions.forEach(e => emotionScores[e] = 0)
InitialScores == [k \in Categories |-> Zero]

\* the body of results.forEach: one raw pair
MapOne(h, scores, r) ==
    LET mappedEmotion == Lookup(h, toLowerCase(r.label))
    IN  IF mappedEmotion # Undefined THEN SetKey(scores, mappedEmotion, r.score)
        ELSE scores

RECURSIVE MapResults(_, _, _)
MapResults(h, scores, rs) ==
    IF rs = <<>> THEN scores
    ELSE MapResults(h, MapOne(h, scores, Head(rs)), Tail(rs))

RECURSIVE SumValues(_, _)
SumValues(scores, keys) ==
    IF keys = {} THEN Zero
    ELSE LET k == CHOOSE x \in keys : TRUE
         IN  RatAdd(scores[k], SumValues(scores, keys \ {k}))

\* Object.values(emotionScores).reduce((a, b) => a + b, 0)
totalScore(scores) == SumValues(scores, DOMAIN scores)

\* if (totalScore > 0) every key is divided by totalScore
Normalize(scores) ==
    LET t == totalScore(scores)
    IN  IF RatLT(Zero, t) THEN [k \in DOMAIN scores |-> RatDiv(scores[k], t)]
        ELSE scores

BuildEmotionsFromKeys(scores) ==
    LET extra == DOMAIN scores \ Categories
        names == IF extra = {} THEN allEmotions
                 ELSE Append(allEmotions, CHOOSE k \in extra : TRUE)
    IN  [i \in 1..Len(names) |->
            [name |-> names[i],
             score |-> scores[names[i]],
             intensity |-> getIntensity(scores[names[i]])]]

\* allEmotions.map(name => ({name, score, intensity}))
BuildEmotions(scores) ==
    [i \in 1..Len(allEmotions) |->
        [name |-> allEmotions[i],
         score |-> scores[allEmotions[i]],
         intensity |-> getIntensity(scores[allEmotions[i]])]]

BeforeAscending(a, b) == RatLT(a.score, b.score)

\* the comparator (a, b) => b.score - a.score is negative: a sorts before b
Before(a, b) == RatLT(b.score, a.score)

\* The number of leading entries of a sorted list that e does not sort before.
RECURSIVE KeepCount(_, _)
KeepCount(sorted, e) ==
    IF sorted = <<>> \/ Before(e, Head(sorted)) THEN 0
    ELSE 1 + KeepCount(Tail(sorted), e)

RECURSIVE KeepCountUnstable(_, _)
KeepCountUnstable(sorted, e) ==
    IF sorted = <<>> \/ ~Before(Head(sorted), e) THEN 0
    ELSE 1 + KeepCountUnstable(Tail(sorted), e)

InsertUnstable(sorted, e) ==
    LET n == KeepCountUnstable(sorted, e)
    IN  SubSeq(sorted, 1, n) \o <<e>> \o SubSeq(sorted, n + 1, Len(sorted))

\* Array.prototype.sort is stable: e goes after every entry it does not sort before
Insert(sorted, e) ==
    LET n == KeepCount(sorted, e)
    IN  SubSeq(sorted, 1, n) \o <<e>> \o SubSeq(sorted, n + 1, Len(sorted))

RECURSIVE SortFrom(_, _)
SortFrom(sorted, rest) ==
    IF rest = <<>> THEN sorted
    ELSE SortFrom(Insert(sorted, Head(rest)), Tail(rest))

\* emotions.sort((a, b) => b.score - a.score)
SortEmotions(es) == SortFrom(<<>>, es)

IsMixedInclusive(e) == RatLE(MixedThreshold, e.score)

\* the filter predicate e => e.score > 0.15
IsMixed(e) == RatLT(MixedThreshold, e.score)

\* emotions.filter(e => e.score > 0.15).map(e => e.name)
RECURSIVE FilterMixed(_)
FilterMixed(es) ==
    IF es = <<>> THEN <<>>
    ELSE (IF IsMixed(Head(es)) THEN <<Head(es).name>> ELSE <<>>) \o FilterMixed(Tail(es))

\* emotions[0]?.name || "Neutral"
DominantOf(es) ==
    IF Len(es) > 0 /\ es[1].name # "" THEN es[1].name ELSE "Neutral"

\* emotions[0]?.score || 0
ConfidenceOf(es) == IF Len(es) > 0 THEN es[1].score ELSE Zero

LowerAll(mixed) == [i \in 1..Len(mixed) |-> toLowerCase(mixed[i])]

\* mixedEmotions.slice(1).join(", ").toLowerCase(), kept as the list of its names
LowerTail(mixed) == [i \in 1..(Len(mixed) - 1) |-> toLowerCase(mixed[i + 1])]

\* The template literal of analysis_summary, kept as its parts.
Summary(h, dominant, mixed) ==
    [lead |-> IF h = "text" THEN "The text primarily expresses"
              ELSE "Facial expression analysis detected",
     primary |-> toLowerCase(dominant),
     clause |-> IF Len(mixed) > 1
                THEN (IF h = "text" THEN ", with hints of"
                      ELSE ", with additional expressions of")
                ELSE "",
     secondary |-> IF Len(mixed) > 1 THEN LowerTail(mixed) ELSE <<>>]

\* Everything analyzeText / analyzeImage do once the classifier has answered.
Analyze(h, rs) ==
    LET emotionScores == Normalize(MapResults(h, InitialScores, rs))
        emotions == SortEmotions(BuildEmotions(emotionScores))
        dominantEmotion == DominantOf(emotions)
        mixedEmotions == FilterMixed(emotions)
    IN  [emotions |-> emotions,
         dominant_emotion |-> dominantEmotion,
         mixed_emotions |-> mixedEmotions,
         confidence |-> ConfidenceOf(emotions),
         analysis_summary |-> Summary(h, dominantEmotion, mixedEmotions)]

analyzeText(rs) == Analyze("text", rs)

analyzeImage(rs) == Analyze("image", rs)

-----------------------------------------------------------------------------
(* Inputs of the analysis *)

MaxLen == 2

\* raw scores, in hundredths: 3/(3+17) = 0.15, 17/(17+33) = 0.34, 67/(67+33) = 0.67
RawScores == {Rat(n, 100) : n \in {0, 3, 17, 33, 67}}

\* the text model's seven labels, one in capitals, and an inherited property name
TextLabels ==
    {"joy", "sadness", "anger", "surprise", "disgust", "neutral", "fear", "JOY",
     "constructor"}

\* the image model's seven labels, one capitalised, and an inherited property name
ImageLabels ==
    {"happy", "sad", "angry", "surprise", "disgust", "neutral", "fear", "Neutral",
     "constructor"}

Labels(h) == IF h = "text" THEN TextLabels ELSE ImageLabels

RawPairs(h) == [label : Labels(h), score : RawScores]

RawInputs(h) == UNION {[1..n -> RawPairs(h)] : n \in 0..MaxLen}

\* the key of the hook's lookup table that maps to a category
KeyOf(h, name) == CHOOSE k \in DOMAIN EMOTION_MAP(h) : EMOTION_MAP(h)[k] = name

\* an EmotionData's vector as a raw classification, labelled by category name
\* ("name") or by the lookup table's key for the category ("key")
AsRaw(h, d, labelling) ==
    [i \in 1..Len(d.emotions) |->
        [label |-> IF labelling = "name" THEN d.emotions[i].name
                   ELSE KeyOf(h, d.emotions[i].name),
         score |-> d.emotions[i].score]]

-----------------------------------------------------------------------------
(* The analysis as a state machine *)

\* no page mounted, no hook instance, nothing loaded
HooksIdle ==
    /\ page = "none"
    /\ mounts = 0
    /\ classifierRef = <<>>
    /\ isLoading = <<>>
    /\ modelReady = <<>>
    /\ isAnalyzing = <<>>
    /\ calls = <<>>
    /\ pipelines = 0
    /\ built = 0

\* no analysis made
NormIdle ==
    /\ results = <<>>
    /\ data = Null
    /\ refed = "none"
    /\ again = Null

Modalities == {"text", "video"}

\* the combined page as mounted, signed out, with no input
CombinedIdle ==
    /\ variant = "local"
    /\ user = FALSE
    /\ text = ""
    /\ isCameraOn = FALSE
    /\ analyzing = FALSE
    /\ textResults = Null
    /\ videoResults = Null
    /\ tasks = [m \in Modalities |-> "none"]
    /\ returned = [m \in Modalities |-> Null]
    /\ saved = [m \in Modalities |-> "none"]
    /\ toasts = <<>>
    /\ store = <<>>
    /\ order = <<>>
    /\ runs = 0

NoRequest == [method |-> "none"]

NoReply == [kind |-> "none"]

NoCounts == [text |-> 0, video |-> 0, combined |-> 0, total |-> 0]

\* nothing rendered, no request to the function, the Dashboard not opened
AuxIdle ==
    /\ shuffled = <<>>
    /\ emotionsProp = <<>>
    /\ sortedEmotions = <<>>
    /\ req = NoRequest
    /\ stage = "idle"
    /\ reply = NoReply
    /\ fetches = 0
    /\ responses = <<>>
    /\ table = {}
    /\ history = <<>>
    /\ loadingHistory = TRUE
    /\ counts = NoCounts
    /\ requests = <<>>

\* the TextAnalysis / VideoAnalysis page as mounted
PageIdle ==
    /\ pageResults = Null
    /\ pageAnalyzing = FALSE
    /\ handler = "idle"

InitNorm ==
    /\ hook \in {"text", "image"}
    /\ NormIdle
    /\ HooksIdle
    /\ CombinedIdle
    /\ PageIdle
    /\ AuxIdle

AnalyzeText ==
    /\ hook = "text" /\ data = Null
    /\ \E rs \in RawInputs("text") :
        /\ results' = rs
        /\ data' = analyzeText(rs)
    /\ UNCHANGED <<hook, refed, again>>
    /\ UNCHANGED hookVars
    /\ UNCHANGED combinedVars
    /\ UNCHANGED pageVars
    /\ UNCHANGED auxVars

AnalyzeImage ==
    /\ hook = "image" /\ data = Null
    /\ \E rs \in RawInputs("image") :
        /\ results' = rs
        /\ data' = analyzeImage(rs)
    /\ UNCHANGED <<hook, refed, again>>
    /\ UNCHANGED hookVars
    /\ UNCHANGED combinedVars
    /\ UNCHANGED pageVars
    /\ UNCHANGED auxVars

FeedBack ==
    /\ data # Null /\ refed = "none"
    /\ \E labelling \in {"name", "key"} :
        /\ refed' = labelling
        /\ again' = Analyze(hook, AsRaw(hook, data, labelling))
    /\ UNCHANGED <<hook, results, data>>
    /\ UNCHANGED hookVars
    /\ UNCHANGED combinedVars
    /\ UNCHANGED pageVars
    /\ UNCHANGED auxVars

NextNorm == AnalyzeText \/ AnalyzeImage

\* one classification
SpecNorm == InitNorm /\ [][NextNorm]_vars

NextIdem == AnalyzeText \/ AnalyzeImage \/ FeedBack

\* one classification, then a re-run on its own output
SpecIdem == InitNorm /\ [][NextIdem]_vars

-----------------------------------------------------------------------------
(* The hook's classifier handle: pages mount and unmount, loadModel and the    *)
(* analysis run as asynchronous calls that settle one await at a time.         *)

MaxMounts == 2

MaxCalls == 3

\* the mounted hook instance
Mounted == mounts

Loading == {"webgpu", "cpu"}

\* isAnyModelLoading / allModelsReady of the combined page also read the other
\* hook; on the single-model pages the Load Model button needs !modelReady
LoadButtonShown ==
    /\ page # "none"
    /\ ~isLoading[Mounted]
    /\ (page = "single" => ~modelReady[Mounted])

AnalyzeButtonEnabled ==
    /\ page # "none"
    /\ ~isAnalyzing[Mounted]
    /\ ~isLoading[Mounted]

StartLoadMarksReady(i, op) ==
    IF classifierRef[i] # 0
    THEN /\ modelReady' = [modelReady EXCEPT ![i] = TRUE]
         /\ calls' = Append(calls, [inst |-> i, op |-> op, pc |-> "resolved", attempts |-> 0,
                                    classified |-> 0, error |-> "none"])
         /\ UNCHANGED <<isLoading, pipelines>>
    ELSE /\ isLoading' = [isLoading EXCEPT ![i] = TRUE]
         /\ modelReady' = [modelReady EXCEPT ![i] = TRUE]
         /\ calls' = Append(calls, [inst |-> i, op |-> op, pc |-> "webgpu", attempts |-> 1,
                                    classified |-> 0, error |-> "none"])
         /\ pipelines' = pipelines + 1

\* loadModel up to its first await, called for operation op of instance i:
\* with the handle set it returns at once, otherwise it starts the WebGPU pipeline
StartLoad(i, op) ==
    IF classifierRef[i] # 0
    THEN /\ modelReady' = [modelReady EXCEPT ![i] = TRUE]
         /\ calls' = Append(calls, [inst |-> i, op |-> op, pc |-> "resolved", attempts |-> 0,
                                    classified |-> 0, error |-> "none"])
         /\ UNCHANGED <<isLoading, pipelines>>
    ELSE /\ isLoading' = [isLoading EXCEPT ![i] = TRUE]
         /\ calls' = Append(calls, [inst |-> i, op |-> op, pc |-> "webgpu", attempts |-> 1,
                                    classified |-> 0, error |-> "none"])
         /\ pipelines' = pipelines + 1
         /\ UNCHANGED modelReady

\* a page using the hook is mounted: a fresh hook instance, whose mount effect
\* calls loadModel
Mount ==
    /\ page = "none"
    /\ mounts < MaxMounts
    /\ Len(calls) < MaxCalls
    /\ \E p \in {"single", "combined"} : page' = p
    /\ mounts' = mounts + 1
    /\ classifierRef' = Append(classifierRef, 0)
    /\ isLoading' = Append(isLoading, TRUE)
    /\ modelReady' = Append(modelReady, FALSE)
    /\ isAnalyzing' = Append(isAnalyzing, FALSE)
    /\ calls' = Append(calls, [inst |-> mounts + 1, op |-> "loadModel", pc |-> "webgpu",
                               attempts |-> 1, classified |-> 0, error |-> "none"])
    /\ pipelines' = pipelines + 1
    /\ UNCHANGED <<hook, built>>
    /\ UNCHANGED normVars
    /\ UNCHANGED combinedVars
    /\ UNCHANGED pageVars
    /\ UNCHANGED auxVars

\* navigating away unmounts the page; calls in flight go on
Unmount ==
    /\ page # "none"
    /\ page' = "none"
    /\ UNCHANGED <<hook, mounts, classifierRef, isLoading, modelReady, isAnalyzing,
                   calls, pipelines, built>>
    /\ UNCHANGED normVars
    /\ UNCHANGED combinedVars
    /\ UNCHANGED pageVars
    /\ UNCHANGED auxVars

\* the Load Model(s) button: onClick={() => loadModel()}
ClickLoadModel ==
    /\ LoadButtonShown
    /\ Len(calls) < MaxCalls
    /\ StartLoad(Mounted, "loadModel")
    /\ UNCHANGED <<hook, page, mounts, classifierRef, isAnalyzing, built>>
    /\ UNCHANGED normVars
    /\ UNCHANGED combinedVars
    /\ UNCHANGED pageVars
    /\ UNCHANGED auxVars

\* the Analyze button: handleAnalyze / captureAndAnalyze / handleCombinedAnalysis
\* call analyzeText or analyzeImage, which loads the model when the handle is unset
ClickAnalyze ==
    /\ AnalyzeButtonEnabled
    /\ Len(calls) < MaxCalls
    /\ isAnalyzing' = [isAnalyzing EXCEPT ![Mounted] = TRUE]
    /\ IF classifierRef[Mounted] # 0
       THEN /\ calls' = Append(calls, [inst |-> Mounted, op |-> "analyze", pc |-> "classify",
                                       attempts |-> 0, classified |-> 1, error |-> "none"])
            /\ UNCHANGED <<isLoading, modelReady, pipelines>>
       ELSE StartLoad(Mounted, "analyze")
    /\ UNCHANGED <<hook, page, mounts, classifierRef, built>>
    /\ UNCHANGED normVars
    /\ UNCHANGED combinedVars
    /\ UNCHANGED pageVars
    /\ UNCHANGED auxVars

\* a pipeline() promise of call c resolves: the handle is stored, modelReady set,
\* isLoading cleared; an analysis goes on to invoke the classifier
PipelineResolves(c) ==
    /\ calls[c].pc \in Loading
    /\ built' = built + 1
    /\ classifierRef' = [classifierRef EXCEPT ![calls[c].inst] = built + 1]
    /\ modelReady' = [modelReady EXCEPT ![calls[c].inst] = TRUE]
    /\ isLoading' = [isLoading EXCEPT ![calls[c].inst] = FALSE]
    /\ calls' = [calls EXCEPT
                    ![c].pc = IF calls[c].op = "analyze" THEN "classify" ELSE "resolved",
                    ![c].classified = IF calls[c].op = "analyze" THEN @ + 1 ELSE @]
    /\ UNCHANGED <<hook, page, mounts, isAnalyzing, pipelines>>
    /\ UNCHANGED normVars
    /\ UNCHANGED combinedVars
    /\ UNCHANGED pageVars
    /\ UNCHANGED auxVars

WebgpuRejectsClearsLoading(c) ==
    /\ calls[c].pc = "webgpu"
    /\ calls' = [calls EXCEPT ![c].pc = "cpu", ![c].attempts = @ + 1]
    /\ pipelines' = pipelines + 1
    /\ isLoading' = [isLoading EXCEPT ![calls[c].inst] = FALSE]
    /\ UNCHANGED <<hook, page, mounts, classifierRef, modelReady, isAnalyzing, built>>
    /\ UNCHANGED normVars
    /\ UNCHANGED combinedVars
    /\ UNCHANGED pageVars
    /\ UNCHANGED auxVars

\* the WebGPU pipeline rejects: the catch block starts the CPU pipeline
WebgpuRejects(c) ==
    /\ calls[c].pc = "webgpu"
    /\ calls' = [calls EXCEPT ![c].pc = "cpu", ![c].attempts = @ + 1]
    /\ pipelines' = pipelines + 1
    /\ UNCHANGED <<hook, page, mounts, classifierRef, isLoading, modelReady, isAnalyzing,
                   built>>
    /\ UNCHANGED normVars
    /\ UNCHANGED combinedVars
    /\ UNCHANGED pageVars
    /\ UNCHANGED auxVars

CpuRejectsRetries(c) ==
    /\ calls[c].pc = "cpu"
    /\ calls' = [calls EXCEPT ![c].pc = "webgpu", ![c].attempts = @ + 1]
    /\ pipelines' = pipelines + 1
    /\ UNCHANGED <<hook, page, mounts, classifierRef, isLoading, modelReady, isAnalyzing,
                   built>>
    /\ UNCHANGED normVars
    /\ UNCHANGED combinedVars
    /\ UNCHANGED pageVars
    /\ UNCHANGED auxVars

CpuRejectsKeepsLoading(c) ==
    /\ calls[c].pc = "cpu"
    /\ calls' = [calls EXCEPT ![c].pc = "rejected", ![c].error = "cpu"]
    /\ isAnalyzing' = IF calls[c].op = "analyze"
                      THEN [isAnalyzing EXCEPT ![calls[c].inst] = FALSE]
                      ELSE isAnalyzing
    /\ UNCHANGED <<hook, page, mounts, classifierRef, isLoading, modelReady, pipelines,
                   built>>
    /\ UNCHANGED normVars
    /\ UNCHANGED combinedVars
    /\ UNCHANGED pageVars
    /\ UNCHANGED auxVars

CpuRejectsSwallowed(c) ==
    /\ calls[c].pc = "cpu"
    /\ isLoading' = [isLoading EXCEPT ![calls[c].inst] = FALSE]
    /\ calls' = [calls EXCEPT
                    ![c].pc = IF calls[c].op = "analyze" THEN "classify" ELSE "rejected",
                    ![c].classified = IF calls[c].op = "analyze" THEN @ + 1 ELSE @]
    /\ UNCHANGED <<hook, page, mounts, classifierRef, modelReady, isAnalyzing, pipelines,
                   built>>
    /\ UNCHANGED normVars
    /\ UNCHANGED combinedVars
    /\ UNCHANGED pageVars
    /\ UNCHANGED auxVars

\* the CPU pipeline rejects: loadModel rethrows after clearing isLoading; an
\* analysis rejects with it and its page handler clears isAnalyzing
CpuRejects(c) ==
    /\ calls[c].pc = "cpu"
    /\ isLoading' = [isLoading EXCEPT ![calls[c].inst] = FALSE]
    /\ calls' = [calls EXCEPT ![c].pc = "rejected", ![c].error = "cpu"]
    /\ isAnalyzing' = IF calls[c].op = "analyze"
                      THEN [isAnalyzing EXCEPT ![calls[c].inst] = FALSE]
                      ELSE isAnalyzing
    /\ UNCHANGED <<hook, page, mounts, classifierRef, modelReady, pipelines, built>>
    /\ UNCHANGED normVars
    /\ UNCHANGED combinedVars
    /\ UNCHANGED pageVars
    /\ UNCHANGED auxVars

\* the classifier answers or fails: the analysis settles and the page handler's
\* finally block clears isAnalyzing
ClassifierSettles(c) ==
    /\ calls[c].pc = "classify"
    /\ \E outcome \in {"resolved", "rejected"} :
        calls' = [calls EXCEPT ![c].pc = outcome,
                               ![c].error = IF outcome = "rejected" THEN "classifier" ELSE @]
    /\ isAnalyzing' = [isAnalyzing EXCEPT ![calls[c].inst] = FALSE]
    /\ UNCHANGED <<hook, page, mounts, classifierRef, isLoading, modelReady, pipelines,
                   built>>
    /\ UNCHANGED normVars
    /\ UNCHANGED combinedVars
    /\ UNCHANGED pageVars
    /\ UNCHANGED auxVars

Init ==
    /\ hook \in {"text", "image"}
    /\ NormIdle
    /\ HooksIdle
    /\ CombinedIdle
    /\ PageIdle
    /\ AuxIdle

Next ==
    \/ Mount
    \/ Unmount
    \/ ClickLoadModel
    \/ ClickAnalyze
    \/ \E c \in 1..Len(calls) : PipelineResolves(c)
    \/ \E c \in 1..Len(calls) : WebgpuRejects(c)
    \/ \E c \in 1..Len(calls) : CpuRejects(c)
    \/ \E c \in 1..Len(calls) : ClassifierSettles(c)

Spec == Init /\ [][Next]_vars

-----------------------------------------------------------------------------
(* The combined page: handleCombinedAnalysis starts one promise per modality   *)
(* with input, each with its own catch, and awaits them all.                   *)

MaxRuns == 1

\* classifier outputs the two hooks are run on in the combined page
SampleRaws(m) ==
    IF m = "text"
    THEN {<<[label |-> "joy", score |-> Rat(67, 100)],
            [label |-> "neutral", score |-> Rat(33, 100)]>>,
          <<[label |-> "sadness", score |-> Rat(3, 100)],
            [label |-> "constructor", score |-> Rat(3, 100)]>>}
    ELSE {<<[label |-> "happy", score |-> Rat(17, 100)],
            [label |-> "sad", score |-> Rat(17, 100)],
            [label |-> "fear", score |-> Rat(33, 100)]>>}

\* JSON objects the edge function may answer with: it returns whatever object the
\* gateway's reply parses to, one obeying the prompt's rules and one not
RemotePayloads ==
    {[emotions |-> <<[name |-> "Happy", score |-> Rat(4, 5), intensity |-> "high"],
                     [name |-> "Fearful", score |-> Rat(1, 5), intensity |-> "low"]>>,
      dominant_emotion |-> "Happy",
      mixed_emotions |-> <<"Happy", "Fearful">>,
      confidence |-> Rat(9, 10),
      analysis_summary |-> "joy with some fear"],
     [emotions |-> <<[name |-> "Sad", score |-> Rat(1, 2), intensity |-> "high"],
                     [name |-> "Happy", score |-> Rat(9, 10), intensity |-> "low"]>>,
      dominant_emotion |-> "Sad",
      mixed_emotions |-> <<>>,
      confidence |-> Rat(1, 2),
      analysis_summary |-> "sadness"]}

\* what a modality's analysis can resolve with
Outcomes(v, m) ==
    IF v = "remote" THEN RemotePayloads
    ELSE IF m = "text" THEN {analyzeText(rs) : rs \in SampleRaws("text")}
    ELSE {analyzeImage(rs) : rs \in SampleRaws("video")}

FailTitle(m) == IF m = "text" THEN "Text analysis failed" ELSE "Video analysis failed"

NullText == "<null>"

SaveRowEchoesInput(analysisType, emotionData, inputText) ==
    [analysis_type |-> analysisType,
     input_text |-> inputText,
     dominant_emotion |-> emotionData.dominant_emotion,
     confidence |-> emotionData.confidence,
     emotions |-> emotionData.emotions,
     mixed_emotions |-> emotionData.mixed_emotions,
     summary |-> emotionData.analysis_summary]

\* the row saveAnalysis inserts
SaveRow(analysisType, emotionData, inputText) ==
    [analysis_type |-> analysisType,
     input_text |-> IF inputText = "" THEN NullText ELSE inputText,
     dominant_emotion |-> emotionData.dominant_emotion,
     confidence |-> emotionData.confidence,
     emotions |-> emotionData.emotions,
     mixed_emotions |-> emotionData.mixed_emotions,
     summary |-> emotionData.analysis_summary]

\* the inputText argument the page passes for a modality
InputTextOf(m) == IF m = "text" THEN text ELSE ""

SettledAny(t) ==
    \/ \A m \in Modalities : t[m] = "none"
    \/ \E m \in Modalities : t[m] \in {"done", "failed"}

Settled(t) == \A m \in Modalities : t[m] \in {"none", "done", "failed"}

\* after await Promise.all(promises): the completion toast, once all have settled
WithCompletion(t, ts) == IF Settled(t) THEN Append(ts, "Analysis complete") ELSE ts

ResultsAfterCatchCleared(m, res) == [k \in Modalities |-> Null]

\* the catch block of a modality logs and toasts: both results stay as they are
ResultsAfterCatch(m, res) == res

InitCombined ==
    /\ hook = "text"
    /\ NormIdle
    /\ HooksIdle
    /\ PageIdle
    /\ AuxIdle
    /\ variant \in {"local", "remote"}
    /\ user \in BOOLEAN
    /\ text \in {"", "so glad"}
    /\ isCameraOn \in BOOLEAN
    /\ analyzing = FALSE
    /\ textResults = Null
    /\ videoResults = Null
    /\ tasks = [m \in Modalities |-> "none"]
    /\ returned = [m \in Modalities |-> Null]
    /\ saved = [m \in Modalities |-> "none"]
    /\ toasts = <<>>
    /\ store = <<>>
    /\ order = <<>>
    /\ runs = 0

\* handleCombinedAnalysis up to await Promise.all: frame tells whether a frame
\* could be captured (canvas context / captureFrame)
ClickCombined ==
    /\ ~analyzing
    /\ text # "" \/ isCameraOn
    /\ runs < MaxRuns
    /\ \E frame \in (IF isCameraOn THEN BOOLEAN ELSE {FALSE}) :
        LET t == [m \in Modalities |->
                    IF m = "text" THEN (IF text # "" THEN "pending" ELSE "none")
                    ELSE (IF isCameraOn /\ frame THEN "pending" ELSE "none")]
        IN  /\ tasks' = t
            /\ analyzing' = ~Settled(t)
            /\ toasts' = WithCompletion(t, <<>>)
    /\ textResults' = Null
    /\ videoResults' = Null
    /\ returned' = [m \in Modalities |-> Null]
    /\ saved' = [m \in Modalities |-> "none"]
    /\ order' = <<>>
    /\ runs' = runs + 1
    /\ UNCHANGED <<hook, variant, user, text, isCameraOn, store>>
    /\ UNCHANGED normVars
    /\ UNCHANGED hookVars
    /\ UNCHANGED pageVars
    /\ UNCHANGED auxVars

\* a modality's analysis resolves: its result is set, then saveAnalysis either
\* returns at once (no user) or awaits the insert
TaskResolves(m) ==
    /\ tasks[m] = "pending"
    /\ \E d \in Outcomes(variant, m) :
        /\ returned' = [returned EXCEPT ![m] = d]
        /\ textResults' = IF m = "text" THEN d ELSE textResults
        /\ videoResults' = IF m = "video" THEN d ELSE videoResults
    /\ LET t == [tasks EXCEPT ![m] = IF user THEN "saving" ELSE "done"]
       IN  /\ tasks' = t
           /\ analyzing' = ~Settled(t)
           /\ toasts' = WithCompletion(t, toasts)
    /\ saved' = [saved EXCEPT ![m] = IF user THEN "inserting" ELSE "skipped"]
    /\ order' = IF user THEN order ELSE Append(order, m)
    /\ UNCHANGED <<hook, variant, user, text, isCameraOn, store, runs>>
    /\ UNCHANGED normVars
    /\ UNCHANGED hookVars
    /\ UNCHANGED pageVars
    /\ UNCHANGED auxVars

\* a modality's analysis rejects: its catch block reports it
TaskRejects(m) ==
    /\ tasks[m] = "pending"
    /\ LET t == [tasks EXCEPT ![m] = "failed"]
           res == ResultsAfterCatch(m, [k \in Modalities |->
                                          IF k = "text" THEN textResults ELSE videoResults])
       IN  /\ tasks' = t
           /\ analyzing' = ~Settled(t)
           /\ toasts' = WithCompletion(t, Append(toasts, FailTitle(m)))
           /\ textResults' = res["text"]
           /\ videoResults' = res["video"]
    /\ order' = Append(order, m)
    /\ UNCHANGED <<hook, variant, user, text, isCameraOn, returned, saved, store, runs>>
    /\ UNCHANGED normVars
    /\ UNCHANGED hookVars
    /\ UNCHANGED pageVars
    /\ UNCHANGED auxVars

\* the insert of saveAnalysis settles: an error is logged and swallowed
InsertSettles(m) ==
    /\ tasks[m] = "saving"
    /\ \E ok \in BOOLEAN :
        /\ store' = IF ok THEN Append(store, SaveRow("combined", returned[m], InputTextOf(m)))
                    ELSE store
        /\ saved' = [saved EXCEPT ![m] = IF ok THEN "inserted" ELSE "insertFailed"]
    /\ LET t == [tasks EXCEPT ![m] = "done"]
       IN  /\ tasks' = t
           /\ analyzing' = ~Settled(t)
           /\ toasts' = WithCompletion(t, toasts)
    /\ order' = Append(order, m)
    /\ UNCHANGED <<hook, variant, user, text, isCameraOn, textResults, videoResults,
                   returned, runs>>
    /\ UNCHANGED normVars
    /\ UNCHANGED hookVars
    /\ UNCHANGED pageVars
    /\ UNCHANGED auxVars

NextCombined ==
    \/ ClickCombined
    \/ \E m \in Modalities : TaskResolves(m)
    \/ \E m \in Modalities : TaskRejects(m)
    \/ \E m \in Modalities : InsertSettles(m)

SpecCombined == InitCombined /\ [][NextCombined]_vars

-----------------------------------------------------------------------------
(* The TextAnalysis and VideoAnalysis pages: handleAnalyze / captureAndAnalyze  *)
(* await the hook's analysis, show its result, hand it to saveAnalysis and      *)
(* report the outcome.  hook tells which of the two pages the session uses.     *)

\* the analysis type the page passes to saveAnalysis
PageType(h) == IF h = "text" THEN "text" ELSE "video"

\* the inputText argument the page passes to saveAnalysis
PageInputText(h) == IF h = "text" THEN text ELSE ""

\* the other page-handler state an action of these pages leaves alone
PageFrame ==
    /\ UNCHANGED <<hook, refed, again>>
    /\ UNCHANGED auxVars
    /\ UNCHANGED hookVars
    /\ UNCHANGED <<variant, user, text, isCameraOn, analyzing, textResults, videoResults,
                   tasks, returned, saved, order>>

\* TextAnalysis, handleAnalyze up to its await: the button is disabled while
\* analyzing and for blank text
handleAnalyze ==
    /\ hook = "text"
    /\ ~pageAnalyzing
    /\ text # ""
    /\ runs < MaxRuns
    /\ pageAnalyzing' = TRUE
    /\ pageResults' = Null
    /\ handler' = "analyzing"
    /\ results' = <<>>
    /\ data' = Null
    /\ runs' = runs + 1
    /\ UNCHANGED <<toasts, store>>
    /\ PageFrame

\* VideoAnalysis, captureAndAnalyze up to its await: the button exists while the
\* camera is on; without a canvas context the handler throws into its own catch
captureAndAnalyze ==
    /\ hook = "image"
    /\ isCameraOn
    /\ ~pageAnalyzing
    /\ runs < MaxRuns
    /\ pageResults' = Null
    /\ results' = <<>>
    /\ data' = Null
    /\ runs' = runs + 1
    /\ \E ctx \in BOOLEAN :
        IF ctx
        THEN /\ pageAnalyzing' = TRUE
             /\ handler' = "analyzing"
             /\ UNCHANGED toasts
        ELSE /\ pageAnalyzing' = FALSE
             /\ handler' = "failed"
             /\ toasts' = Append(toasts, "Analysis failed")
    /\ UNCHANGED store
    /\ PageFrame

\* analyzeText / analyzeImage resolves: the result is shown; saveAnalysis returns
\* at once without a user (then the completion toast and the finally block
\* follow) or awaits the insert
AnalysisResolves ==
    /\ handler = "analyzing"
    /\ \E rs \in SampleRaws(PageType(hook)) :
        /\ results' = rs
        /\ data' = Analyze(hook, rs)
        /\ pageResults' = Analyze(hook, rs)
    /\ IF user
       THEN /\ handler' = "saving"
            /\ UNCHANGED <<pageAnalyzing, toasts>>
       ELSE /\ handler' = "done"
            /\ pageAnalyzing' = FALSE
            /\ toasts' = Append(toasts, "Analysis complete")
    /\ UNCHANGED <<store, runs>>
    /\ PageFrame

AnalysisRejectsUnreported ==
    /\ handler = "analyzing"
    /\ handler' = "failed"
    /\ pageAnalyzing' = FALSE
    /\ UNCHANGED <<results, data, pageResults, toasts, store, runs>>
    /\ PageFrame

\* analyzeText / analyzeImage rejects: the catch block reports it, the finally
\* block clears isAnalyzing
AnalysisRejects ==
    /\ handler = "analyzing"
    /\ handler' = "failed"
    /\ toasts' = Append(toasts, "Analysis failed")
    /\ pageAnalyzing' = FALSE
    /\ UNCHANGED <<results, data, pageResults, store, runs>>
    /\ PageFrame

SaveSettlesRethrows ==
    /\ handler = "saving"
    /\ \E ok \in BOOLEAN :
        /\ store' = IF ok
                    THEN Append(store, SaveRow(PageType(hook), data, PageInputText(hook)))
                    ELSE store
        /\ handler' = IF ok THEN "done" ELSE "failed"
        /\ toasts' = Append(toasts, IF ok THEN "Analysis complete" ELSE "Analysis failed")
    /\ pageAnalyzing' = FALSE
    /\ UNCHANGED <<results, data, pageResults, runs>>
    /\ PageFrame

\* the insert of saveAnalysis settles (an error is logged and swallowed), then
\* the completion toast and the finally block
SaveSettles ==
    /\ handler = "saving"
    /\ \E ok \in BOOLEAN :
        store' = IF ok THEN Append(store, SaveRow(PageType(hook), data, PageInputText(hook)))
                 ELSE store
    /\ handler' = "done"
    /\ pageAnalyzing' = FALSE
    /\ toasts' = Append(toasts, "Analysis complete")
    /\ UNCHANGED <<results, data, pageResults, runs>>
    /\ PageFrame

\* a session with one of the two pages and the combined page
InitPage ==
    /\ hook \in {"text", "image"}
    /\ NormIdle
    /\ HooksIdle
    /\ PageIdle
    /\ AuxIdle
    /\ variant \in {"local", "remote"}
    /\ user \in BOOLEAN
    /\ text \in {"", "so glad"}
    /\ isCameraOn \in BOOLEAN
    /\ analyzing = FALSE
    /\ textResults = Null
    /\ videoResults = Null
    /\ tasks = [m \in Modalities |-> "none"]
    /\ returned = [m \in Modalities |-> Null]
    /\ saved = [m \in Modalities |-> "none"]
    /\ toasts = <<>>
    /\ store = <<>>
    /\ order = <<>>
    /\ runs = 0

NextPage ==
    \/ handleAnalyze
    \/ captureAndAnalyze
    \/ AnalysisResolves
    \/ AnalysisRejects
    \/ SaveSettles
    \/ ClickCombined
    \/ \E m \in Modalities : TaskResolves(m)
    \/ \E m \in Modalities : TaskRejects(m)
    \/ \E m \in Modalities : InsertSettles(m)

SpecPage == InitPage /\ [][NextPage]_vars

-----------------------------------------------------------------------------
(* Properties of the analysis *)

Analyzed == data # Null

\* the position of a category in the canonical order
CanonIndex(name) == CHOOSE i \in 1..Len(allEmotions) : allEmotions[i] = name

\* the score an EmotionData gives a category
ScoreIn(d, name) ==
    LET i == CHOOSE j \in 1..Len(d.emotions) : d.emotions[j].name = name
    IN  d.emotions[i].score

RECURSIVE SumScores(_)
SumScores(es) == IF es = <<>> THEN Zero ELSE RatAdd(Head(es).score, SumScores(Tail(es)))

AllZero(d) == \A i \in 1..Len(d.emotions) : d.emotions[i].score = Zero

\* the six scores sum to 1 within 1e-6
SumsToOne(d) ==
    /\ RatLE(<<999999, 1000000>>, SumScores(d.emotions))
    /\ RatLE(SumScores(d.emotions), <<1000001, 1000000>>)

\* a raw pair that reaches one of the six categories
MapsToCategory(h, r) == toLowerCase(r.label) \in DOMAIN EMOTION_MAP(h)

\* C1: whenever some category ends up with a positive score, the six scores
\* returned by analyzeText / analyzeImage sum to 1 within 1e-6.
C1_SumsToOne ==
    (Analyzed /\ ~AllZero(data)) => SumsToOne(data)

\* C2: an empty raw classification, one with no label mapping to a category, or
\* one with only zero scores gives six zero scores, dominant_emotion "Neutral",
\* confidence 0 and no mixed emotions.
C2_ZeroMassIsNeutral ==
    (/\ Analyzed
     /\ \/ results = <<>>
        \/ \A i \in 1..Len(results) : ~MapsToCategory(hook, results[i])
        \/ \A i \in 1..Len(results) : results[i].score = Zero)
    => /\ AllZero(data)
       /\ data.dominant_emotion = "Neutral"
       /\ data.confidence = Zero
       /\ data.mixed_emotions = <<>>

SameVector(d, e) == \A c \in Categories : ScoreIn(d, c) = ScoreIn(e, c)

IsNormalized(d) == AllZero(d) \/ SumScores(d.emotions) = One

\* the categories whose lowercased name is a key of the hook's lookup table
KeyNamed(h) == IF h = "text" THEN {"Neutral"} ELSE {"Happy", "Sad", "Angry", "Neutral"}

\* every category with a non-zero score has its lowercased name as a table key
NamesAreKeys(h, d) ==
    \A i \in 1..Len(d.emotions) :
        d.emotions[i].score # Zero => d.emotions[i].name \in KeyNamed(h)

\* C3 (as claimed): a normalized vector fed back with each pair labelled by its
\* category name comes out unchanged, for both lookup tables.
C3_IdempotentByName ==
    (refed = "name" /\ IsNormalized(data)) => SameVector(data, again)

\* C3 (amended): a normalized vector fed back comes out unchanged when each pair
\* is labelled by the lookup table's key for its category, and with the category
\* name as label when every non-zero category's lowercased name is a table key.
C3_IdempotentByKey ==
    /\ (refed = "key" /\ IsNormalized(data)) => SameVector(data, again)
    /\ (refed = "name" /\ IsNormalized(data) /\ NamesAreKeys(hook, data))
        => SameVector(data, again)

\* a vector with two non-zero categories, one of them not a key by name, fed back
\* under the table's keys and returned unchanged
C3_Witness ==
    /\ refed = "key" /\ IsNormalized(data) /\ ~NamesAreKeys(hook, data)
    /\ Cardinality({c \in Categories : ScoreIn(data, c) # Zero}) >= 2
    /\ SameVector(data, again)

\* C8: the emotions list is sorted by score descending and entries with equal
\* scores are in the canonical order Happy, Sad, Angry, Surprised, Disgusted,
\* Neutral; this fixes the order of the list.
C8_SortedStable ==
    Analyzed =>
        \A i \in 1..(Len(data.emotions) - 1) :
            LET a == data.emotions[i]
                b == data.emotions[i + 1]
            IN  \/ a.score[1] * b.score[2] > b.score[1] * a.score[2]
                \/ /\ a.score = b.score
                   /\ CanonIndex(a.name) < CanonIndex(b.name)

\* two categories tied on a positive score, listed by the classifier in the
\* reverse of the canonical order, and a further tie among the zero scores
C8_Witness ==
    /\ Analyzed
    /\ Len(results) = 2
    /\ data.emotions[1].score = data.emotions[2].score
    /\ data.emotions[1].score # Zero
    /\ MapsToCategory(hook, results[1])
    /\ Lookup(hook, toLowerCase(results[1].label)) = data.emotions[2].name
    /\ data.emotions[3].score = Zero

\* C9: every entry's intensity is low for score < 0.34, medium for
\* 0.34 <= score < 0.67 and high for score >= 0.67, of its normalized score.
C9_IntensityBuckets ==
    Analyzed =>
        \A i \in 1..Len(data.emotions) :
            LET e == data.emotions[i]
                n == e.score[1]
                d == e.score[2]
            IN  /\ (e.intensity = "low") = (100 * n < 34 * d)
                /\ (e.intensity = "medium") = (100 * n >= 34 * d /\ 100 * n < 67 * d)
                /\ e.intensity = "high" <=> 100 * n >= 67 * d

\* a score of exactly 0.67 reported high beside a score of 0.33 reported low
C9_Witness ==
    /\ Analyzed
    /\ \E i, j \in 1..Len(data.emotions) :
        /\ data.emotions[i].score = <<67, 100>> /\ data.emotions[i].intensity = "high"
        /\ data.emotions[j].score = <<33, 100>> /\ data.emotions[j].intensity = "low"

\* the position of a name in the emotions list
PosIn(d, name) == CHOOSE j \in 1..Len(d.emotions) : d.emotions[j].name = name

\* C10: mixed_emotions lists exactly the categories whose normalized score is
\* strictly above 0.15, each once, in the order of the sorted emotions list.
C10_MixedAboveThreshold ==
    Analyzed =>
        LET m == data.mixed_emotions
        IN  /\ {m[i] : i \in 1..Len(m)} =
                 {c \in Categories : 100 * ScoreIn(data, c)[1] > 15 * ScoreIn(data, c)[2]}
            /\ \A i, j \in 1..Len(m) : i < j => PosIn(data, m[i]) < PosIn(data, m[j])

\* a category at exactly 0.15 left out of a non-empty mixed_emotions
C10_Witness ==
    /\ Analyzed
    /\ data.mixed_emotions # <<>>
    /\ \E c \in Categories :
        /\ ScoreIn(data, c) = <<3, 20>>
        /\ \A i \in 1..Len(data.mixed_emotions) : data.mixed_emotions[i] # c

\* C11: dominant_emotion is the name of the first entry of the sorted list and
\* confidence is its score: confidence is the maximum score over the categories
\* and, among the categories tied for it, dominant_emotion is the earliest in
\* canonical order.
C11_DominantIsFirstMax ==
    Analyzed =>
        /\ data.dominant_emotion = data.emotions[1].name
        /\ data.confidence = data.emotions[1].score
        /\ \A c \in Categories : RatLE(ScoreIn(data, c), data.confidence)
        /\ ScoreIn(data, data.dominant_emotion) = data.confidence
        /\ \A c \in Categories :
            ScoreIn(data, c) = data.confidence
                => CanonIndex(data.dominant_emotion) <= CanonIndex(c)

\* two categories tied for a positive maximum, the canonically later one listed
\* first by the classifier, and the earlier one reported dominant
C11_Witness ==
    /\ Analyzed
    /\ Len(results) = 2
    /\ RatLT(Zero, data.confidence)
    /\ data.emotions[2].score = data.confidence
    /\ MapsToCategory(hook, results[1])
    /\ Lookup(hook, toLowerCase(results[1].label)) = data.emotions[2].name
    /\ data.dominant_emotion = data.emotions[1].name
    /\ data.dominant_emotion # "Happy"

\* the indices of the raw pairs stored under a key of the scores object
PairsFor(h, rs, c) == {i \in 1..Len(rs) : Lookup(h, toLowerCase(rs[i].label)) = c}

\* the score of the last raw pair stored under a key, 0 when there is none
LastScore(h, rs, c) ==
    IF PairsFor(h, rs, c) = {} THEN Zero
    ELSE rs[CHOOSE i \in PairsFor(h, rs, c) : \A j \in PairsFor(h, rs, c) : j <= i].score

\* C12: when several raw pairs map to the same category, the category's score
\* before renormalization is the score of the last such pair in input order
\* (overwritten, neither summed nor maximised), and the returned score is that
\* score over the total.
C12_LastWriteWins ==
    Analyzed =>
        LET raw == MapResults(hook, InitialScores, results)
            t == totalScore(raw)
        IN  \A c \in Categories :
                /\ raw[c] = LastScore(hook, results, c)
                /\ ScoreIn(data, c) =
                     IF RatLT(Zero, t) THEN RatDiv(LastScore(hook, results, c), t)
                     ELSE LastScore(hook, results, c)

\* two pairs for one category, the first with the larger score: the category
\* holds the second pair's score, which is neither the sum nor the maximum
C12_Witness ==
    /\ Analyzed
    /\ Len(results) = 2
    /\ MapsToCategory(hook, results[1])
    /\ toLowerCase(results[1].label) = toLowerCase(results[2].label)
    /\ results[1].label # results[2].label
    /\ RatLT(results[2].score, results[1].score)
    /\ RatLT(Zero, results[2].score)
    /\ MapResults(hook, InitialScores, results)[Lookup(hook, toLowerCase(results[1].label))]
         = results[2].score

\* a raw classification without its i-th pair
Without(rs, i) == SubSeq(rs, 1, i - 1) \o SubSeq(rs, i + 1, Len(rs))

\* C13: a raw pair whose lowercased label is not a key of the lookup table is
\* discarded: the EmotionData returned is the one returned without that pair.
C13_UnmappedDiscarded ==
    Analyzed =>
        \A i \in 1..Len(results) :
            ~MapsToCategory(hook, results[i])
                => data = Analyze(hook, Without(results, i))

\* C13 for the labels that are not names of inherited properties either
C13_UnknownDiscarded ==
    Analyzed =>
        \A i \in 1..Len(results) :
            Lookup(hook, toLowerCase(results[i].label)) = Undefined
                => data = Analyze(hook, Without(results, i))

\* C14: analysis_summary has the secondary clause if and only if mixed_emotions
\* has more than one entry, and the clause lists exactly the lowercased mixed
\* emotions after the first, in order, never the dominant emotion.
C14_SecondaryClause ==
    Analyzed =>
        LET m == data.mixed_emotions
            s == data.analysis_summary
        IN  /\ (s.clause # "") = (Len(m) > 1)
            /\ s.clause # "" =>
                 s.clause = (IF hook = "text" THEN ", with hints of"
                             ELSE ", with additional expressions of")
            /\ Len(m) > 1 =>
                 /\ Len(s.secondary) = Len(m) - 1
                 /\ \A i \in 1..Len(s.secondary) : s.secondary[i] = toLowerCase(m[i + 1])
                 /\ \A i \in 1..Len(s.secondary) :
                        s.secondary[i] # toLowerCase(data.dominant_emotion)
            /\ Len(m) <= 1 => s.secondary = <<>>
            /\ s.primary = toLowerCase(data.dominant_emotion)

\* two mixed emotions: the clause names the second one only
C14_Witness ==
    /\ Analyzed
    /\ Len(data.mixed_emotions) = 2
    /\ data.analysis_summary.clause # ""
    /\ data.analysis_summary.secondary = <<toLowerCase(data.mixed_emotions[2])>>
    /\ data.mixed_emotions[1] = data.dominant_emotion

\* C18: for non-negative raw scores the emotions list has exactly one entry for
\* each of the six categories, each with a score in [0, 1], and dominant_emotion
\* and every element of mixed_emotions are among the six.
C18_SixEntriesInRange ==
    Analyzed =>
        /\ Len(data.emotions) = 6
        /\ \A c \in Categories :
            Cardinality({i \in 1..Len(data.emotions) : data.emotions[i].name = c}) = 1
        /\ \A i \in 1..Len(data.emotions) :
            /\ data.emotions[i].name \in Categories
            /\ RatLE(Zero, data.emotions[i].score)
            /\ RatLE(data.emotions[i].score, One)
        /\ data.dominant_emotion \in Categories
        /\ \A i \in 1..Len(data.mixed_emotions) : data.mixed_emotions[i] \in Categories

\* a classification with a label the table lacks beside a mapped one, and a
\* category at score 1
C18_Witness ==
    /\ Analyzed
    /\ \E i \in 1..Len(results) : ~MapsToCategory(hook, results[i])
    /\ \E i \in 1..Len(results) : MapsToCategory(hook, results[i])
    /\ data.confidence = One
    /\ Len(data.emotions) = 6

\* C19: whenever some mapped raw score is positive, mixed_emotions is non-empty
\* and its first element is dominant_emotion; mixed_emotions is empty exactly
\* when the vector is all-zero.
C19_MixedNonEmpty ==
    Analyzed =>
        /\ ~AllZero(data) =>
            /\ data.mixed_emotions # <<>>
            /\ data.mixed_emotions[1] = data.dominant_emotion
        /\ (data.mixed_emotions = <<>>) = AllZero(data)

\* C19 when no label names an inherited property
C19_MixedNonEmptyOwnKeys ==
    (Analyzed /\ \A i \in 1..Len(results) :
                    toLowerCase(results[i].label) \notin DOMAIN ObjectPrototype)
    => /\ ~AllZero(data) =>
            /\ data.mixed_emotions # <<>>
            /\ data.mixed_emotions[1] = data.dominant_emotion
       /\ (data.mixed_emotions = <<>>) = AllZero(data)

-----------------------------------------------------------------------------
(* Properties of the classifier handle *)

\* the calls whose pipeline construction is in flight
InFlight == {c \in 1..Len(calls) : calls[c].pc \in Loading}

\* C4: while a load of the model is in flight no second pipeline construction is
\* started: at most one construction is in flight at any time.
C4_OneLoadInFlight == Cardinality(InFlight) <= 1

\* C5: over a whole session, mounts and unmounts included, the pipeline of a
\* modality is constructed at most once.
C5_BuiltAtMostOnce == built <= 1

RECURSIVE SumAttempts(_)
SumAttempts(cs) == IF cs = <<>> THEN 0 ELSE Head(cs).attempts + SumAttempts(Tail(cs))

\* C16 (as claimed): a single call starts at most one pipeline initialisation
\* attempt.
C16_OneAttemptPerCall == \A c \in 1..Len(calls) : calls[c].attempts <= 1

\* C16 (amended): a single call starts one WebGPU initialisation attempt and,
\* only when that has failed, one CPU attempt, at most two in all; once the CPU
\* attempt has failed the call has rejected and starts nothing more, so every
\* pipeline invocation is the first or the fallback attempt of some call.
C16_NoRetryAfterFallback ==
    /\ \A c \in 1..Len(calls) :
        /\ calls[c].attempts <= 2
        /\ calls[c].pc = "webgpu" => calls[c].attempts = 1
        /\ calls[c].pc = "cpu" => calls[c].attempts = 2
    /\ pipelines = SumAttempts(calls)
    /\ built <= pipelines

\* a loadModel call whose WebGPU and CPU attempts both failed: it has rejected,
\* isLoading is cleared, and no third pipeline invocation was made
C16_Witness ==
    \E c \in 1..Len(calls) :
        /\ calls[c].op = "loadModel"
        /\ calls[c].pc = "rejected"
        /\ calls[c].attempts = 2
        /\ pipelines = 2
        /\ ~isLoading[calls[c].inst]
        /\ classifierRef[calls[c].inst] = 0

\* C20: analyzeText / analyzeImage invoke the classifier only with the handle
\* set, after a load has completed successfully: with the handle unset they await
\* loadModel first, and when that load fails the call rejects without any
\* classification and without a result.
C20_ClassifyOnlyWhenLoaded ==
    \A c \in 1..Len(calls) :
        /\ calls[c].classified <= 1
        /\ calls[c].classified = 1 =>
            /\ calls[c].op = "analyze"
            /\ classifierRef[calls[c].inst] # 0
            /\ built >= 1
        /\ calls[c].pc \in Loading => calls[c].classified = 0
        /\ calls[c].pc = "classify" => calls[c].classified = 1
        /\ (calls[c].op = "analyze" /\ calls[c].pc = "resolved") => calls[c].classified = 1
        /\ (calls[c].pc = "rejected" /\ classifierRef[calls[c].inst] = 0)
            => calls[c].classified = 0

\* one analysis found the handle unset, awaited a load that failed on both
\* devices and rejected unclassified; a later one awaited a load that succeeded,
\* classified and returned a result
C20_Witness ==
    \E c, d \in 1..Len(calls) :
        /\ c < d
        /\ calls[c].op = "analyze" /\ calls[c].pc = "rejected"
        /\ calls[c].attempts = 2 /\ calls[c].classified = 0
        /\ calls[d].op = "analyze" /\ calls[d].pc = "resolved"
        /\ calls[d].attempts >= 1 /\ calls[d].classified = 1

\* the calls of hook instance i whose pipeline construction is in flight
LoadingOf(i) == {c \in 1..Len(calls) : calls[c].inst = i /\ calls[c].pc \in Loading}

\* C21: a loadModel call attempts the WebGPU pipeline first and the CPU pipeline
\* only after the WebGPU attempt failed; when both fail the call rejects with the
\* CPU error, the handle stays unset and modelReady stays false, so a later call
\* attempts loading again; in every outcome isLoading is false once the call has
\* settled.
C21_FallbackThenReject ==
    /\ [](\A c \in 1..Len(calls) :
            /\ calls[c].pc = "webgpu" => calls[c].attempts = 1
            /\ calls[c].pc = "cpu" => calls[c].attempts = 2
            /\ calls[c].attempts = 0 => classifierRef[calls[c].inst] # 0
            /\ (calls[c].pc = "rejected" /\ calls[c].classified = 0)
                => /\ calls[c].attempts = 2
                   /\ calls[c].error = "cpu"
            /\ (calls[c].pc \notin Loading /\ LoadingOf(calls[c].inst) = {})
                => ~isLoading[calls[c].inst])
    /\ [][\A c \in 1..Len(calls) :
            /\ (calls[c].pc # "cpu" /\ calls'[c].pc = "cpu") => calls[c].pc = "webgpu"
            /\ (calls[c].pc = "cpu" /\ calls'[c].pc = "rejected")
                => /\ classifierRef'[calls[c].inst] = classifierRef[calls[c].inst]
                   /\ modelReady'[calls[c].inst] = modelReady[calls[c].inst]
                   /\ ~isLoading'[calls[c].inst]
            /\ (calls[c].pc \in Loading /\ calls'[c].pc \notin Loading)
                => ~isLoading'[calls[c].inst]]_vars
    /\ [][Len(calls') > Len(calls)
            => LET n == calls'[Len(calls')]
               IN  (classifierRef'[n.inst] = 0) = (n.pc = "webgpu")]_vars

\* a loadModel call rejected with the CPU error after both attempts, the handle
\* unset, modelReady and isLoading false, and a later call on the same instance
\* attempting WebGPU again
C21_Witness ==
    \E c, d \in 1..Len(calls) :
        /\ c < d
        /\ calls[c].inst = calls[d].inst
        /\ calls[c].op = "loadModel" /\ calls[c].pc = "rejected"
        /\ calls[c].attempts = 2 /\ calls[c].error = "cpu"
        /\ calls[d].pc = "webgpu"
        /\ classifierRef[calls[c].inst] = 0
        /\ ~modelReady[calls[c].inst]

C23_ReadyImpliesHandle ==
    /\ [](\A i \in 1..mounts : modelReady[i] => classifierRef[i] # 0)
    /\ [][\A i \in 1..mounts : modelReady[i] => modelReady'[i]]_vars

\* a ready instance on which loadModel was called again and returned at once
C23_Witness ==
    \E c \in 1..Len(calls) :
        /\ calls[c].op = "loadModel"
        /\ calls[c].attempts = 0
        /\ calls[c].pc = "resolved"
        /\ modelReady[calls[c].inst]
        /\ classifierRef[calls[c].inst] # 0

-----------------------------------------------------------------------------
(* Properties of the combined page *)

Other(m) == IF m = "text" THEN "video" ELSE "text"

ShownFor(m) == IF m = "text" THEN textResults ELSE videoResults

Raised(title) == \E i \in 1..Len(toasts) : toasts[i] = title

Succeeded(m) == tasks[m] \in {"saving", "done"}

\* the store holds the row of modality m's result
Persisted(m) ==
    \E i \in 1..Len(store) :
        /\ store[i].analysis_type = "combined"
        /\ store[i].emotions = returned[m].emotions
        /\ store[i].dominant_emotion = returned[m].dominant_emotion
        /\ store[i].confidence = returned[m].confidence

\* C6 (as claimed): when one modality has failed and the other has succeeded and
\* settled, the successful result is displayed and persisted and the failure is
\* reported.
C6_PartialSuccessPersisted ==
    \A m \in Modalities :
        (tasks[Other(m)] = "failed" /\ tasks[m] = "done")
        => /\ ShownFor(m) = returned[m]
           /\ Persisted(m)
           /\ Raised(FailTitle(Other(m)))

\* C6 (amended): when one modality has failed and the other has succeeded, in
\* either order, the successful result is displayed unaltered and handed to
\* saveAnalysis (an insert is issued exactly when a user is signed in, and the row
\* is stored when that insert succeeds), the failure is reported for the failed
\* modality only, and nothing is displayed for it.
C6_PartialSuccess ==
    \A m \in Modalities :
        (tasks[Other(m)] = "failed" /\ Succeeded(m))
        => /\ returned[m] # Null
           /\ ShownFor(m) = returned[m]
           /\ ShownFor(Other(m)) = Null
           /\ Raised(FailTitle(Other(m)))
           /\ ~Raised(FailTitle(m))
           /\ saved[m] # "none"
           /\ (saved[m] = "skipped") = ~user
           /\ saved[m] = "inserted" => Persisted(m)
           /\ tasks[m] = "done" => saved[m] # "inserting"

\* the text analysis failed first; the video analysis then succeeded, is shown
\* and stored, and the run has ended
C6_Witness ==
    /\ order = <<"text", "video">>
    /\ tasks["text"] = "failed" /\ tasks["video"] = "done"
    /\ videoResults = returned["video"] /\ videoResults # Null
    /\ saved["video"] = "inserted" /\ Persisted("video")
    /\ ~analyzing

RECURSIVE SortedDesc(_)
SortedDesc(es) ==
    \/ Len(es) < 2
    \/ /\ es[2].score[1] * es[1].score[2] <= es[1].score[1] * es[2].score[2]
       /\ SortedDesc(Tail(es))

Bucket(score) ==
    IF 100 * score[1] >= 67 * score[2] THEN "high"
    ELSE IF 100 * score[1] >= 34 * score[2] THEN "medium"
    ELSE "low"

\* scores sum to 1 or are all zero, sorted descending, intensity = bucket(score)
WellFormed(d) ==
    /\ AllZero(d) \/ SumScores(d.emotions) = One
    /\ SortedDesc(d.emotions)
    /\ \A i \in 1..Len(d.emotions) : d.emotions[i].intensity = Bucket(d.emotions[i].score)

\* C7: every EmotionData the combined page shows or persists has scores summing
\* to 1 (or all zero), entries sorted descending and intensity = bucket(score).
C7_CombinedNormalized ==
    /\ textResults # Null => WellFormed(textResults)
    /\ videoResults # Null => WellFormed(videoResults)
    /\ \A i \in 1..Len(store) : WellFormed(store[i])

\* C7 on the edge-function page alone
C7_RemoteNormalized == variant = "remote" => C7_CombinedNormalized

-----------------------------------------------------------------------------
(* Properties of the analysis pages *)

\* C15: when analyzeText (TextAnalysis) or analyzeImage (VideoAnalysis) rejects,
\* the page shows no result, persists nothing, reports the failure, does not
\* issue the analysis again by itself, and isAnalyzing returns to false.
C15_FailureSurfaced ==
    /\ [](handler = "failed" => (pageResults = Null /\ data = Null /\ ~pageAnalyzing))
    /\ [][(handler = "analyzing" /\ handler' # "analyzing")
            => \/ /\ handler' = "failed"
                  /\ pageResults' = Null
                  /\ store' = store
                  /\ toasts' = Append(toasts, "Analysis failed")
                  /\ ~pageAnalyzing'
                  /\ runs' = runs
               \/ /\ handler' \in {"saving", "done"}
                  /\ pageResults' # Null]_vars
    /\ [][(handler = "failed" /\ handler' # "failed")
            => (handler' = "analyzing" /\ runs' = runs + 1)]_vars

\* the text analysis of a signed-in user was rejected: nothing shown, nothing
\* stored, one failure toast, the button enabled again
C15_Witness ==
    /\ hook = "text"
    /\ user
    /\ handler = "failed"
    /\ pageResults = Null
    /\ store = <<>>
    /\ toasts = <<"Analysis failed">>
    /\ ~pageAnalyzing
    /\ runs = 1

\* a row carries the five result fields of an EmotionData
Carries(row, d) ==
    /\ row.dominant_emotion = d.dominant_emotion
    /\ row.confidence = d.confidence
    /\ row.emotions = d.emotions
    /\ row.mixed_emotions = d.mixed_emotions
    /\ row.summary = d.analysis_summary

\* C17: the record saveAnalysis inserts carries dominant_emotion, confidence,
\* emotions, mixed_emotions and summary of the EmotionData the page displays,
\* analysis_type of the calling page (text, video or combined) and input_text
\* equal to the analysed text, or null when there is none.
C17_RecordMatchesDisplayed ==
    [][store' # store
        => /\ Len(store') = Len(store) + 1
           /\ SubSeq(store', 1, Len(store)) = store
           /\ LET row == store'[Len(store')]
              IN  \/ /\ handler = "saving" /\ handler' = "done"
                     /\ pageResults # Null /\ pageResults' = pageResults
                     /\ Carries(row, pageResults)
                     /\ row.analysis_type = (IF hook = "text" THEN "text" ELSE "video")
                     /\ row.input_text = (IF hook = "text" THEN text ELSE NullText)
                     /\ row.input_text # ""
                  \/ \E m \in Modalities :
                     /\ tasks[m] = "saving" /\ tasks'[m] = "done"
                     /\ ShownFor(m) # Null
                     /\ Carries(row, ShownFor(m))
                     /\ row.analysis_type = "combined"
                     /\ row.input_text = (IF m = "text" THEN text ELSE NullText)
                     /\ row.input_text # ""]_vars

\* the VideoAnalysis page stored the result it shows, without an input text
C17_Witness ==
    /\ hook = "image"
    /\ handler = "done"
    /\ Len(store) = 1
    /\ store[1].analysis_type = "video"
    /\ store[1].input_text = NullText
    /\ pageResults # Null
    /\ Carries(store[1], pageResults)

\* the TextAnalysis page stored the result it shows with the analysed text
C17_TextWitness ==
    /\ hook = "text"
    /\ handler = "done"
    /\ Len(store) = 1
    /\ store[1].analysis_type = "text"
    /\ store[1].input_text = text
    /\ Carries(store[1], pageResults)

-----------------------------------------------------------------------------
(* Properties of handleCombinedAnalysis and of persistence *)

\* the modalities of the current run whose promise has not settled
Unsettled == {m \in Modalities : tasks[m] \in {"pending", "saving"}}

\* how often a title was toasted since the last click
Toasted(title) == Cardinality({i \in 1..Len(toasts) : toasts[i] = title})

\* C24: a run of handleCombinedAnalysis starts every requested modality before
\* it awaits any, keeps isAnalyzing true until each of them has settled, then
\* sets it to false and announces completion once, whatever mix of success and
\* failure occurs.
C24_AnalyzingUntilAllSettled ==
    /\ [](/\ analyzing = (Unsettled # {})
          /\ Toasted("Analysis complete") = (IF runs > 0 /\ Unsettled = {} THEN 1 ELSE 0)
          /\ \A m \in Modalities : (tasks[m] = "failed") = (Toasted(FailTitle(m)) = 1))
    /\ [][runs' = runs + 1
            => /\ (tasks'["text"] = "pending") = (text # "")
               /\ tasks'["video"] \in {"pending", "none"}
               /\ tasks'["video"] = "pending" => isCameraOn
               /\ analyzing' = (tasks'["text"] = "pending" \/ tasks'["video"] = "pending")]_vars
    /\ [][(analyzing /\ ~analyzing')
            => /\ \A m \in Modalities : tasks'[m] \in {"none", "done", "failed"}
               /\ toasts' = Append(SubSeq(toasts', 1, Len(toasts') - 1), "Analysis complete")
               /\ runs' = runs]_vars

\* both modalities were started; the text analysis failed while the video
\* analysis was still pending, isAnalyzing stayed true, and after the video
\* result was saved the run ended with the completion toast
C24_Witness ==
    /\ order = <<"text", "video">>
    /\ tasks["text"] = "failed" /\ tasks["video"] = "done"
    /\ ~analyzing
    /\ toasts = <<"Text analysis failed", "Analysis complete">>

\* C25: saveAnalysis never rejects: with no signed-in user it performs no insert,
\* and an insert error is swallowed, so a persistence failure never removes the
\* result already shown and never turns a successful analysis into a reported
\* failure; the result is set for display before persistence is attempted.
C25_SaveNeverRejects ==
    /\ [](/\ ~user => store = <<>>
          /\ handler = "saving" => (user /\ pageResults # Null /\ pageResults = data)
          /\ handler = "done" => pageResults # Null
          /\ \A m \in Modalities :
                tasks[m] \in {"saving", "done"} => ShownFor(m) = returned[m])
    /\ [][(handler = "saving" /\ handler' # "saving")
            => /\ handler' = "done"
               /\ pageResults' = pageResults
               /\ toasts' = Append(toasts, "Analysis complete")]_vars
    /\ [][\A m \in Modalities :
            (tasks[m] = "saving" /\ tasks'[m] # "saving")
                => /\ tasks'[m] = "done"
                   /\ Toasted(FailTitle(m))' = Toasted(FailTitle(m))]_vars

\* a signed-in user's insert failed: nothing is stored, the result is still
\* shown and the analysis is reported complete
C25_Witness ==
    /\ user
    /\ handler = "done"
    /\ store = <<>>
    /\ pageResults # Null
    /\ toasts = <<"Analysis complete">>

\* ---------------------------------------------------------------------------
\* The analyze-emotion function (supabase/functions/analyze-emotion/index.ts).
\* A request is its method, whether its body parses as JSON, the type the body
\* names and whether LOVABLE_API_KEY is set in the function's environment.
\* The gateway's content is a sequence of tokens: "{" and "}", "m" for one
\* well-formed member, "x" for any other text.
\* ---------------------------------------------------------------------------

MaxContent == 3

Tokens == {"{", "}", "m", "x"}

\* message.content of the first choice, when it is a string (<<>> is "")
Contents == UNION {[1..n -> Tokens] : n \in 0..MaxContent}

Requests ==
    [method : {"OPTIONS", "POST"}, json : BOOLEAN, type : {"text", "image", "other"},
     key : BOOLEAN]

\* what the fetch of the gateway can produce: a rejection, a status other than
\* 2xx whose body can or cannot be read, or an OK answer whose body is not
\* JSON, is JSON without choices[0].message.content, or carries a content
Replies ==
    {[kind |-> "rejected"]}
    \cup [kind : {"status"}, status : {429, 402, 500}, readable : BOOLEAN]
    \cup [kind : {"ok"}, body : {"garbage", "nocontent"}, content : {<<>>}]
    \cup [kind : {"ok"}, body : {"content"}, content : Contents]

\* the position of the first "{" and of the last "}", 0 if there is none
FirstOpen(content) ==
    IF \E i \in 1..Len(content) : content[i] = "{"
    THEN CHOOSE i \in 1..Len(content) :
            /\ content[i] = "{"
            /\ \A k \in 1..(i - 1) : content[k] # "{"
    ELSE 0

LastClose(content) ==
    IF \E j \in 1..Len(content) : content[j] = "}"
    THEN CHOOSE j \in 1..Len(content) :
            /\ content[j] = "}"
            /\ \A k \in (j + 1)..Len(content) : content[k] # "}"
    ELSE 0

\* content.match(/\{[\s\S]*\}/): from the first "{" to the last "}" after it
jsonMatch(content) ==
    IF FirstOpen(content) > 0 /\ FirstOpen(content) < LastClose(content)
    THEN SubSeq(content, FirstOpen(content), LastClose(content))
    ELSE Null

\* JSON.parse of a matched span: an object with no member or with one
JSONParse(s) ==
    IF s = <<"{", "}">> THEN [ok |-> TRUE, members |-> 0]
    ELSE IF s = <<"{", "m", "}">> THEN [ok |-> TRUE, members |-> 1]
    ELSE [ok |-> FALSE]

\* serve goes on to call the gateway
ToFetch == [fetch |-> TRUE]

ErrorResponse(status, message) == [status |-> status, body |-> [error |-> message]]

\* the part of serve before the fetch
BeforeFetchWithoutKey(r) ==
    IF r.method = "OPTIONS" THEN [status |-> 200, body |-> Null]
    ELSE IF ~r.json THEN ErrorResponse(500, "Unexpected end of JSON input")
    ELSE IF r.type \notin {"text", "image"}
        THEN ErrorResponse(500, "Invalid analysis type. Use 'text' or 'image'.")
    ELSE ToFetch

BeforeFetch(r) ==
    IF r.method = "OPTIONS" THEN [status |-> 200, body |-> Null]
    ELSE IF ~r.json THEN ErrorResponse(500, "Unexpected end of JSON input")
    ELSE IF ~r.key THEN ErrorResponse(500, "LOVABLE_API_KEY is not configured")
    ELSE IF r.type \notin {"text", "image"}
        THEN ErrorResponse(500, "Invalid analysis type. Use 'text' or 'image'.")
    ELSE ToFetch

\* the part of serve after the fetch
AfterFetch(a) ==
    IF a.kind = "rejected" THEN ErrorResponse(500, "fetch failed")
    ELSE IF a.kind = "status" THEN
        IF ~a.readable THEN ErrorResponse(500, "body unreadable")
        ELSE IF a.status = 429
            THEN ErrorResponse(429, "Rate limit exceeded. Please try again later.")
        ELSE IF a.status = 402
            THEN ErrorResponse(402, "Payment required. Please add credits.")
        ELSE ErrorResponse(500, "AI gateway error")
    ELSE IF a.body = "garbage" THEN ErrorResponse(500, "Unexpected token")
    ELSE IF a.body = "nocontent" \/ a.content = <<>>
        THEN ErrorResponse(500, "No response from AI")
    ELSE IF jsonMatch(a.content) = Null THEN ErrorResponse(500, "Invalid response format")
    ELSE IF ~JSONParse(jsonMatch(a.content)).ok THEN ErrorResponse(500, "Unexpected token")
    ELSE [status |-> 200, body |-> JSONParse(jsonMatch(a.content))]

EdgeFrame ==
    /\ UNCHANGED <<hook, normVars, hookVars, combinedVars, pageVars>>
    /\ UNCHANGED <<permVars, viewVars, dashVars>>

InitEdge ==
    /\ hook = "text"
    /\ NormIdle
    /\ HooksIdle
    /\ CombinedIdle
    /\ PageIdle
    /\ shuffled = <<>>
    /\ emotionsProp = <<>>
    /\ sortedEmotions = <<>>
    /\ req \in Requests
    /\ stage = "received"
    /\ reply = NoReply
    /\ fetches = 0
    /\ responses = <<>>
    /\ table = {}
    /\ history = <<>>
    /\ loadingHistory = TRUE
    /\ counts = NoCounts
    /\ requests = <<>>

\* serve up to its first return or to the fetch of the gateway
ServeRequest ==
    /\ stage = "received"
    /\ IF BeforeFetch(req) = ToFetch
       THEN /\ stage' = "fetching"
            /\ fetches' = fetches + 1
            /\ UNCHANGED responses
       ELSE /\ stage' = "responded"
            /\ responses' = Append(responses, BeforeFetch(req))
            /\ UNCHANGED fetches
    /\ UNCHANGED <<req, reply>>
    /\ EdgeFrame

\* the fetch settles and serve runs to its return
GatewayAnswers ==
    /\ stage = "fetching"
    /\ \E a \in Replies :
        /\ reply' = a
        /\ responses' = Append(responses, AfterFetch(a))
    /\ stage' = "responded"
    /\ UNCHANGED <<req, fetches>>
    /\ EdgeFrame

NextEdge == ServeRequest \/ GatewayAnswers

SpecEdge == InitEdge /\ [][NextEdge]_vars

\* the gateway's content has a first "{" and, after it, a last "}" with a JSON
\* object between them
HoldsObject(content) ==
    \E i, j \in 1..Len(content) :
        /\ i < j
        /\ content[i] = "{" /\ content[j] = "}"
        /\ \A k \in 1..(i - 1) : content[k] # "{"
        /\ \A k \in (j + 1)..Len(content) : content[k] # "}"
        /\ SubSeq(content, i, j) \in {<<"{", "}">>, <<"{", "m", "}">>}

Answered == stage = "responded" /\ req.method # "OPTIONS"

MaxShown == 3

\* entries a result can hold, in any order
ShownEntries ==
    {[name |-> n, score |-> s, intensity |-> getIntensity(s)] :
        n \in {"Happy", "Sad", "Fearful"}, s \in {Zero, Rat(1, 5), Rat(1, 2)}}

\* sorting the received array itself
SortedInPlace(emotions) ==
    [emotions |-> SortEmotions(emotions), sortedEmotions |-> SortEmotions(emotions)]

\* const sortedEmotions = [...emotions].sort((a, b) => b.score - a.score):
\* the array received, as it is after the statement, and the sorted copy
SortedCopy(emotions) ==
    [emotions |-> emotions, sortedEmotions |-> SortEmotions(emotions)]

ViewFrame ==
    /\ UNCHANGED <<hook, normVars, hookVars, combinedVars, pageVars>>
    /\ UNCHANGED <<permVars, edgeVars, dashVars>>

InitView ==
    /\ hook = "text"
    /\ NormIdle
    /\ HooksIdle
    /\ CombinedIdle
    /\ PageIdle
    /\ shuffled = <<>>
    /\ emotionsProp \in UNION {[1..n -> ShownEntries] : n \in 1..MaxShown}
    /\ sortedEmotions = <<>>
    /\ req = NoRequest
    /\ stage = "idle"
    /\ reply = NoReply
    /\ fetches = 0
    /\ responses = <<>>
    /\ table = {}
    /\ history = <<>>
    /\ loadingHistory = TRUE
    /\ counts = NoCounts
    /\ requests = <<>>

\* EmotionResults renders
Render ==
    /\ sortedEmotions = <<>>
    /\ emotionsProp' = SortedCopy(emotionsProp).emotions
    /\ sortedEmotions' = SortedCopy(emotionsProp).sortedEmotions
    /\ ViewFrame

NextView == Render

SpecView == InitView /\ [][NextView]_vars

\* how often e occurs in es
Occurrences(es, e) == Cardinality({i \in 1..Len(es) : es[i] = e})

\* C27: rendering EmotionResults leaves the emotions array it receives unchanged
\* (it sorts a copy), and the rows are displayed in descending score order
\* whatever order the input array had.
C27_RendersSortedCopy ==
    /\ [][emotionsProp' = emotionsProp]_vars
    /\ [](sortedEmotions # <<>> =>
            /\ Len(sortedEmotions) = Len(emotionsProp)
            /\ \A e \in ShownEntries :
                    Occurrences(sortedEmotions, e) = Occurrences(emotionsProp, e)
            /\ \A i, j \in 1..Len(sortedEmotions) :
                    i < j => RatLE(sortedEmotions[j].score, sortedEmotions[i].score))

\* an array received in ascending order is displayed in descending order and is
\* itself still ascending
C27_Witness ==
    /\ Len(emotionsProp) = 3
    /\ emotionsProp[1].score = Zero /\ emotionsProp[2].score = Rat(1, 5)
    /\ emotionsProp[3].score = Rat(1, 2)
    /\ Len(sortedEmotions) = 3
    /\ sortedEmotions[1] = emotionsProp[3]
    /\ sortedEmotions[3] = emotionsProp[1]

\* ---------------------------------------------------------------------------
\* The same classification listed in two orders: the backend's pairs are
\* analysed once as listed and once more after a permutation.
\* ---------------------------------------------------------------------------

MaxPairs == 3

\* three of the model's labels and an inherited property name, two scores
PermPairs(h) ==
    [label : IF h = "text" THEN {"joy", "sadness", "anger", "constructor"}
                           ELSE {"happy", "sad", "angry", "constructor"},
     score : {Rat(3, 100), Rat(17, 100)}]

PermInputs(h) == UNION {[1..n -> PermPairs(h)] : n \in 0..MaxPairs}

\* the bijections of 1..n
Orders(n) == {p \in [1..n -> 1..n] : \A i, j \in 1..n : p[i] = p[j] => i = j}

PermFrame ==
    /\ UNCHANGED <<hook, refed>>
    /\ UNCHANGED <<hookVars, combinedVars, pageVars>>
    /\ UNCHANGED <<viewVars, edgeVars, dashVars>>

InitPerm ==
    /\ hook \in {"text", "image"}
    /\ results \in PermInputs(hook)
    /\ data = Null
    /\ refed = "none"
    /\ again = Null
    /\ HooksIdle
    /\ CombinedIdle
    /\ PageIdle
    /\ AuxIdle

\* analyzeText / analyzeImage on the pairs as listed
AnalyzeListed ==
    /\ data = Null
    /\ data' = Analyze(hook, results)
    /\ UNCHANGED <<results, again, shuffled>>
    /\ PermFrame

\* analyzeText / analyzeImage on the same pairs in another order
AnalyzeShuffled ==
    /\ data # Null /\ again = Null
    /\ \E p \in Orders(Len(results)) :
        /\ shuffled' = [i \in 1..Len(results) |-> results[p[i]]]
        /\ again' = Analyze(hook, shuffled')
    /\ UNCHANGED <<results, data>>
    /\ PermFrame

NextPerm == AnalyzeListed \/ AnalyzeShuffled

SpecPerm == InitPerm /\ [][NextPerm]_vars

\* no two pairs of the classification map to the same category
OnePairPerCategory ==
    \A c \in Categories : Cardinality(PairsFor(hook, results, c)) <= 1

\* C28: for raw classifications in which no two pairs map to the same category,
\* every permutation of the pairs yields the same EmotionData from analyzeText /
\* analyzeImage.
C28_OrderIndependent ==
    (again # Null /\ OnePairPerCategory) => again = data

\* what holds of the code: the order does not matter when, besides, no label
\* names a property every object inherits
C28_OrderIndependentOwnKeys ==
    (/\ again # Null
     /\ OnePairPerCategory
     /\ \A i \in 1..Len(results) :
            toLowerCase(results[i].label) \notin DOMAIN ObjectPrototype)
    => again = data

\* three pairs of different categories were analysed in two different orders
C28_Witness ==
    /\ again # Null
    /\ Len(results) = 3
    /\ OnePairPerCategory
    /\ shuffled # results
    /\ \E i \in 1..3 : results[i].label \in {"joy", "happy"}
    /\ \E i \in 1..3 : results[i].label \in {"sadness", "sad"}
    /\ \E i \in 1..3 : results[i].label \in {"anger", "angry"}
    /\ again = data

\* ---------------------------------------------------------------------------
\* The Dashboard (pages/Dashboard.tsx) over the emotion_analyses table.
\* store holds what saveAnalysis inserted, table the rows as the table keeps
\* them; a request is a call of fetchHistory or deleteAnalysis with the point
\* it has reached.
\* ---------------------------------------------------------------------------

MaxRows == 2

MaxDeletes == 2

\* .limit(10)
Limit == 10

\* results saved before the Dashboard is opened
DashSamples ==
    {SaveRow("text", analyzeText(<<[label |-> "joy", score |-> Rat(67, 100)]>>), "so glad"),
     SaveRow("text", analyzeText(<<[label |-> "joy", score |-> Rat(33, 100)],
                                   [label |-> "sadness", score |-> Rat(67, 100)]>>), "so glad"),
     SaveRow("video", analyzeImage(<<[label |-> "happy", score |-> Rat(3, 100)],
                                     [label |-> "sad", score |-> Rat(3, 100)],
                                     [label |-> "angry", score |-> Rat(3, 100)]>>), "")}

\* Math.round of a number that is not negative
MathRound(x) == (2 * x[1] + x[2]) \div (2 * x[2])

\* a value as a NUMERIC(5, 2) column keeps it: rounded to two decimals
Numeric52(x) == Rat((200 * x[1] + x[2]) \div (2 * x[2]), 100)

\* the row the table keeps for the i-th insert, in the columns fetchHistory selects
StoredRow(i, row) ==
    [id |-> i,
     analysis_type |-> row.analysis_type,
     dominant_emotion |-> row.dominant_emotion,
     confidence |-> Numeric52(row.confidence),
     created_at |-> i,
     input_text |-> row.input_text]

\* .order("created_at", { ascending: false })
RECURSIVE NewestFirst(_)
NewestFirst(rows) ==
    IF rows = {} THEN <<>>
    ELSE LET newest == CHOOSE r \in rows : \A q \in rows : q.created_at <= r.created_at
         IN  <<newest>> \o NewestFirst(rows \ {newest})

\* the first select of fetchHistory, as the server answers it
SelectHistory(rows) ==
    SubSeq(NewestFirst(rows), 1, IF Cardinality(rows) < Limit THEN Cardinality(rows) ELSE Limit)

\* the counts fetchHistory computes from the second select
CountsOf(rows) ==
    [text |-> Cardinality({r \in rows : r.analysis_type = "text"}),
     video |-> Cardinality({r \in rows : r.analysis_type = "video"}),
     combined |-> Cardinality({r \in rows : r.analysis_type = "combined"}),
     total |-> Cardinality(rows)]

\* {Math.round(confidence * 100)}% confident, in EmotionResults
ResultsPercent(confidence) == MathRound(Rat(confidence[1] * 100, confidence[2]))

\* {Math.round(record.confidence)}% confidence, in the Dashboard's history
DashboardPercent(record) == MathRound(record.confidence)

FetchCall == [op |-> "fetch", id |-> 0, pc |-> "sent", rows |-> <<>>]

DeleteCall(id) == [op |-> "delete", id |-> id, pc |-> "sent", rows |-> <<>>]

DeleteCalls == {k \in 1..Len(requests) : requests[k].op = "delete"}

At(k, op, pc) == requests[k].op = op /\ requests[k].pc = pc

DashFrame ==
    /\ UNCHANGED <<hook, normVars, hookVars, combinedVars, pageVars>>
    /\ UNCHANGED <<permVars, viewVars, edgeVars>>

\* the Dashboard of a signed-in user after its mount effect called fetchHistory
InitDash ==
    /\ hook = "text"
    /\ NormIdle
    /\ HooksIdle
    /\ PageIdle
    /\ variant = "local"
    /\ user = TRUE
    /\ text = ""
    /\ isCameraOn = FALSE
    /\ analyzing = FALSE
    /\ textResults = Null
    /\ videoResults = Null
    /\ tasks = [m \in Modalities |-> "none"]
    /\ returned = [m \in Modalities |-> Null]
    /\ saved = [m \in Modalities |-> "none"]
    /\ toasts = <<>>
    /\ store \in UNION {[1..n -> DashSamples] : n \in 0..MaxRows}
    /\ order = <<>>
    /\ runs = 0
    /\ shuffled = <<>>
    /\ emotionsProp = <<>>
    /\ sortedEmotions = <<>>
    /\ req = NoRequest
    /\ stage = "idle"
    /\ reply = NoReply
    /\ fetches = 0
    /\ responses = <<>>
    /\ table = {StoredRow(i, store[i]) : i \in 1..Len(store)}
    /\ history = <<>>
    /\ loadingHistory = TRUE
    /\ counts = NoCounts
    /\ requests = <<FetchCall>>

\* the server answers the first select of a fetchHistory call
ServerSelects(k) ==
    /\ At(k, "fetch", "sent")
    /\ \E ok \in BOOLEAN :
        requests' = [requests EXCEPT ![k] =
                        IF ok THEN [@ EXCEPT !.pc = "served", !.rows = SelectHistory(table)]
                        ELSE [@ EXCEPT !.pc = "rejected"]]
    /\ UNCHANGED <<table, history, loadingHistory, counts>>
    /\ DashFrame

\* fetchHistory resumes after its first await
HistoryArrives(k) ==
    /\ requests[k].op = "fetch"
    /\ \/ /\ requests[k].pc = "served"
          /\ history' = requests[k].rows
          /\ requests' = [requests EXCEPT ![k].pc = "counting"]
          /\ UNCHANGED loadingHistory
       \/ /\ requests[k].pc = "rejected"
          /\ loadingHistory' = FALSE
          /\ requests' = [requests EXCEPT ![k].pc = "failed"]
          /\ UNCHANGED history
    /\ UNCHANGED <<table, counts>>
    /\ DashFrame

\* the second select is answered and fetchHistory runs to its end
CountsArrive(k) ==
    /\ At(k, "fetch", "counting")
    /\ \E ok \in BOOLEAN : counts' = IF ok THEN CountsOf(table) ELSE counts
    /\ loadingHistory' = FALSE
    /\ requests' = [requests EXCEPT ![k].pc = "done"]
    /\ UNCHANGED <<table, history>>
    /\ DashFrame

\* the delete button of a listed record: deleteAnalysis up to its await
ClickDelete(i) ==
    /\ ~loadingHistory
    /\ i \in 1..Len(history)
    /\ Cardinality(DeleteCalls) < MaxDeletes
    /\ requests' = Append(requests, DeleteCall(history[i].id))
    /\ UNCHANGED <<table, history, loadingHistory, counts>>
    /\ DashFrame

\* the server carries out a delete, or fails
ServerDeletes(k) ==
    /\ At(k, "delete", "sent")
    /\ \E ok \in BOOLEAN :
        /\ table' = IF ok THEN {r \in table : r.id # requests[k].id} ELSE table
        /\ requests' = [requests EXCEPT ![k].pc = IF ok THEN "served" ELSE "rejected"]
    /\ UNCHANGED <<history, loadingHistory, counts>>
    /\ DashFrame

\* deleteAnalysis asking for the refresh whatever the deletion came to
DeleteReturnsRefreshesAnyway(k) ==
    /\ requests[k].op = "delete"
    /\ requests[k].pc \in {"served", "rejected"}
    /\ loadingHistory' = TRUE
    /\ requests' = Append([requests EXCEPT ![k].pc =
                                IF requests[k].pc = "served" THEN "done" ELSE "failed"],
                          FetchCall)
    /\ UNCHANGED <<table, history, counts>>
    /\ DashFrame

\* deleteAnalysis resumes after its await: fetchHistory() on success
DeleteReturns(k) ==
    /\ requests[k].op = "delete"
    /\ \/ /\ requests[k].pc = "served"
          /\ loadingHistory' = TRUE
          /\ requests' = Append([requests EXCEPT ![k].pc = "done"], FetchCall)
       \/ /\ requests[k].pc = "rejected"
          /\ requests' = [requests EXCEPT ![k].pc = "failed"]
          /\ UNCHANGED loadingHistory
    /\ UNCHANGED <<table, history, counts>>
    /\ DashFrame

NextDash ==
    \/ \E k \in 1..Len(requests) : ServerSelects(k)
    \/ \E k \in 1..Len(requests) : HistoryArrives(k)
    \/ \E k \in 1..Len(requests) : CountsArrive(k)
    \/ \E i \in 1..Len(history) : ClickDelete(i)
    \/ \E k \in 1..Len(requests) : ServerDeletes(k)
    \/ \E k \in 1..Len(requests) : DeleteReturns(k)

SpecDash == InitDash /\ [][NextDash]_vars

\* C29: for a saved analysis, the confidence percentage listed in the Dashboard
\* history equals the percentage shown in the results view for that same
\* analysis, i.e. round(confidence x 100) of the stored confidence.
C29_SamePercentage ==
    \A i \in 1..Len(history) :
        /\ DashboardPercent(history[i]) = ResultsPercent(store[history[i].id].confidence)
        /\ DashboardPercent(history[i]) = ResultsPercent(history[i].confidence)

\* what holds of the code: the Dashboard lists the stored confidence itself,
\* rounded to 0 or 1, while round(confidence x 100) of the stored confidence is
\* the percentage the results view showed
C29_ListsRoundedFraction ==
    \A i \in 1..Len(history) :
        /\ DashboardPercent(history[i]) \in {0, 1}
        /\ ResultsPercent(history[i].confidence)
                = ResultsPercent(store[history[i].id].confidence)

\* every call has run to its end, and no refresh failed
Completed ==
    \A k \in 1..Len(requests) :
        \/ requests[k].pc = "done"
        \/ At(k, "delete", "failed")

\* the ids whose deletion succeeded
Deleted == {requests[k].id : k \in {d \in DeleteCalls : requests[d].pc = "done"}}

\* C30: after any sequence of deleteAnalysis calls and the history refreshes
\* they trigger has completed, the Dashboard history contains no record whose
\* deletion succeeded: the response of an older fetchHistory call never
\* overwrites the state set by a newer one; a failed deletion triggers no
\* refresh and leaves the history unchanged.
C30_DeletedNeverListed ==
    /\ [](Completed => \A i \in 1..Len(history) : history[i].id \notin Deleted)
    /\ [][\A k \in 1..Len(requests) :
            (At(k, "fetch", "served") /\ requests'[k].pc = "counting")
                => \A j \in (k + 1)..Len(requests) :
                        requests[j].op = "fetch" => requests[j].pc \notin {"counting", "done"}]_vars
    /\ [][\A k \in 1..Len(requests) :
            (At(k, "delete", "rejected") /\ requests'[k].pc = "failed")
                => /\ Len(requests') = Len(requests)
                   /\ history' = history
                   /\ loadingHistory' = loadingHistory]_vars

\* the first part of C30 alone
C30_NoDeletedRecordListed ==
    Completed => \A i \in 1..Len(history) : history[i].id \notin Deleted

\* what holds of the code: a failed deletion triggers no refresh and leaves the
\* history unchanged, and a record whose deletion succeeded is in no answer
\* that the server gives afterwards
C30_FailedDeleteNoRefresh ==
    /\ [][\A k \in 1..Len(requests) :
            (At(k, "delete", "rejected") /\ requests'[k].pc = "failed")
                => /\ Len(requests') = Len(requests)
                   /\ history' = history
                   /\ loadingHistory' = loadingHistory]_vars
    /\ [][\A k \in 1..Len(requests) :
            (At(k, "fetch", "sent") /\ requests'[k].pc = "served")
                => \A i \in 1..Len(requests'[k].rows) :
                        \A d \in DeleteCalls :
                            requests[d].pc \in {"served", "done"}
                                => requests'[k].rows[i].id # requests[d].id]_vars

====
